---------------------------- MODULE Spec2Model ----------------------------
(***************************************************************************)
(* Model of src/main.py: a FastAPI backend over a MongoDB document store.  *)
(* Products are listed and searched, categories are listed, orders are     *)
(* created, the product collection is seeded at startup and /test reports  *)
(* on the store.                                                           *)
(*                                                                         *)
(* Python values are tagged tuples: <<"None">>, <<"str", chars>>,          *)
(* <<"float", thousandths>>, <<"int", n>>, <<"bool", b>>, <<"list", seq>>, *)
(* <<"dict", f>>, <<"ObjectId", n>>.  A string is the sequence of its      *)
(* characters (a non-ASCII character is written "U+XXXX").  A document or  *)
(* a dict is a function from its keys to values.                           *)
(*                                                                         *)
(* A float is held as an integer number of thousandths.  Order prices are  *)
(* drawn from multiples of 0.125, for which IEEE-754 double products and   *)
(* sums are exact, so the arithmetic below is the arithmetic of the code.  *)
(***************************************************************************)
EXTENDS Integers, Sequences, FiniteSets, TLC

VARIABLES
  db,        \* the module global db of line 8: "None", "Database", "DatabaseNoName"
  storeOk,   \* whether the store answers calls (FALSE: every storage call raises)
  product,   \* the store's "product" collection, in natural (insertion) order
  order,     \* the store's "order" collection
  resp,      \* the response being sent, NoResponse between requests
  sdoc,      \* serialize_doc's argument, as it is in memory after the call
  sret,      \* serialize_doc's return value
  spc        \* position of the serialize_doc harness: "arg", "once", "twice"

vars == <<db, storeOk, product, order, resp, sdoc, sret, spc>>

---------------------------------------------------------------------------
(* Python values *)

None == <<"None">>

Str(s) == <<"str", s>>

Float(thousandths) == <<"float", thousandths>>

PyInt(n) == <<"int", n>>

Bool(b) == <<"bool", b>>

List(seq) == <<"list", seq>>

Dict(f) == <<"dict", f>>

ObjectId(n) == <<"ObjectId", n>>

\* isinstance(v, ObjectId)
IsObjectId(v) == v[1] = "ObjectId"

IsStr(v) == v[1] = "str"

\* Python truthiness of a value: None, "", 0, 0.0, False, [] and {} are falsy,
\* an ObjectId (no __bool__, no __len__) is always truthy.
Truthy(v) ==
  CASE v[1] = "None" -> FALSE
    [] v[1] = "str" -> Len(v[2]) > 0
    [] v[1] = "int" -> v[2] # 0
    [] v[1] = "float" -> v[2] # 0
    [] v[1] = "bool" -> v[2]
    [] v[1] = "list" -> Len(v[2]) > 0
    [] v[1] = "dict" -> DOMAIN v[2] # {}
    [] OTHER -> TRUE

HexDigits ==
  <<"0", "1", "2", "3", "4", "5", "6", "7", "8", "9", "a", "b", "c", "d", "e", "f">>

RECURSIVE Pow16(_)
Pow16(p) == IF p = 0 THEN 1 ELSE 16 * Pow16(p - 1)

\* str(ObjectId): the 24 lower-case hex digits of the 12-byte identifier.
\* The identifiers of the model are small, so the digits above the 6th are 0.
ObjectIdStr(oid) ==
  Str([i \in 1..24 |->
         IF 24 - i > 5 THEN "0"
         ELSE HexDigits[((oid[2] \div Pow16(24 - i)) % 16) + 1]])

\* str(v) as lines 41 and 45 apply it: to an ObjectId, and at line 41 to
\* whatever truthy value a record holds under _id.
PyStr(v) ==
  CASE v[1] = "ObjectId" -> ObjectIdStr(v)
    [] v[1] = "str" -> v
    [] v[1] = "int" /\ v[2] \in 0..9 -> Str(<<HexDigits[v[2] + 1]>>)

UpperCase ==
  <<"A", "B", "C", "D", "E", "F", "G", "H", "I", "J", "K", "L", "M",
    "N", "O", "P", "Q", "R", "S", "T", "U", "V", "W", "X", "Y", "Z">>

LowerCase ==
  <<"a", "b", "c", "d", "e", "f", "g", "h", "i", "j", "k", "l", "m",
    "n", "o", "p", "q", "r", "s", "t", "u", "v", "w", "x", "y", "z">>

\* Upper case to lower case, as a table.
FoldTable ==
  [c \in {UpperCase[i] : i \in 1..26} |->
     LowerCase[CHOOSE i \in 1..26 : UpperCase[i] = c]]

\* Case folding of one character under the regex option "i".
Fold(c) == IF c \in DOMAIN FoldTable THEN FoldTable[c] ELSE c

\* The code point of a character, as sorted() compares strings: upper case
\* before lower case.
Ord(c) ==
  CASE \E i \in 1..26 : UpperCase[i] = c -> 64 + (CHOOSE i \in 1..26 : UpperCase[i] = c)
    [] \E i \in 1..26 : LowerCase[i] = c -> 96 + (CHOOSE i \in 1..26 : LowerCase[i] = c)
    [] c = " " -> 32
    [] c = "-" -> 45
    [] c = "." -> 46

---------------------------------------------------------------------------
(* Identifier serialization, lines 36-46 *)

\* d.get(key): the value under key, None when the key is absent.
DictGet(d, key) == IF key \in DOMAIN d THEN d[key] ELSE None

\* d.pop(key): d without key.
DictPop(d, key) == [k \in DOMAIN d \ {key} |-> d[k]]

\* d[key] = value
DictSet(d, key, value) ==
  [k \in DOMAIN d \cup {key} |-> IF k = key THEN value ELSE d[k]]

\* "not doc" of line 37: the absent value and the empty mapping are falsy.
\* doc is a Python value, None or a dict.
DocIsFalsy(doc) == ~Truthy(doc)

\* Lines 40-46 on the mapping d: _id, when truthy, becomes id as a string,
\* then every value that is an ObjectId becomes a string.
Serialized(d) ==
  LET d1 == IF Truthy(DictGet(d, "_id"))
            THEN DictSet(DictPop(d, "_id"), "id", PyStr(d["_id"]))
            ELSE d
  IN [k \in DOMAIN d1 |-> IF IsObjectId(d1[k]) THEN PyStr(d1[k]) ELSE d1[k]]

\* serialize_doc with the copy of line 39 left out: the renaming and the
\* conversions are done on the argument itself.
serialize_doc_in_place(doc) ==
  IF DocIsFalsy(doc) THEN [ret |-> doc, arg |-> doc]
  ELSE [ret |-> Dict(Serialized(doc[2])), arg |-> Dict(Serialized(doc[2]))]

\* serialize_doc(doc): ret is the value returned, arg is the argument as the
\* call leaves it (line 39 copies it, so the call never writes to it).
serialize_doc(doc) ==
  IF DocIsFalsy(doc) THEN [ret |-> doc, arg |-> doc]
  ELSE LET d == doc
       IN [ret |-> Dict(Serialized(d[2])), arg |-> doc]

---------------------------------------------------------------------------
(* The store: MongoDB behind database.py *)

\* {"$regex": pattern, "$options": "i"} applied to one string: an unanchored,
\* case-insensitive search.  Of the regex syntax the model has a leading "^",
\* a trailing "$", "." (any character) and literal characters.
RegexSearch(pattern, s) ==
  LET startAnch == Len(pattern) > 0 /\ pattern[1] = "^"
      lo == IF startAnch THEN 2 ELSE 1
      endAnch == Len(pattern) >= lo /\ pattern[Len(pattern)] = "$"
      hi == IF endAnch THEN Len(pattern) - 1 ELSE Len(pattern)
      core == SubSeq(pattern, lo, hi)
  IN \E i \in 1..(Len(s) + 1) :
       /\ i + Len(core) - 1 <= Len(s)
       /\ startAnch => i = 1
       /\ endAnch => i + Len(core) - 1 = Len(s)
       /\ \A j \in 1..Len(core) :
            core[j] = "." \/ Fold(core[j]) = Fold(s[i + j - 1])

\* A $regex condition on a field of a document: a string field is searched,
\* an array field matches when one of its string elements does, a missing
\* field or a value of another type does not match.
FieldRegex(doc, fld, pattern) ==
  LET v == DictGet(doc, fld)
  IN CASE v[1] = "str" -> RegexSearch(pattern, v[2])
       [] v[1] = "list" ->
            \E i \in 1..Len(v[2]) :
              v[2][i][1] = "str" /\ RegexSearch(pattern, v[2][i][2])
       [] OTHER -> FALSE

\* Whether a document satisfies a query filter: every key of the filter must
\* hold, "$or" holds when one of its clauses does.
QueryMatches(doc, query) ==
  \A key \in DOMAIN query :
    IF key = "$or"
    THEN \E i \in 1..Len(query[key]) :
           FieldRegex(doc, query[key][i].field, query[key][i].regex)
    ELSE FieldRegex(doc, key, query[key].regex)

\* get_documents(collection_name, query): the matching documents in the
\* collection's natural order.
get_documents(collection, query) ==
  SelectSeq(collection, LAMBDA doc : QueryMatches(doc, query))

\* create_document(collection_name, data): inserts data into the named
\* collection under the identifier the store assigns, and returns that
\* identifier as a string.  store is the two collections before the call;
\* the result holds them after it.
create_document(store, collection_name, data) ==
  LET oid == ObjectId(Len(store.product) + Len(store.order) + 1)
  IN [store |-> [store EXCEPT ![collection_name] = Append(@, DictSet(data, "_id", oid))],
      id |-> PyStr(oid)]

\* db[...].count_documents({})
count_documents(collection) == Len(collection)

\* db[...].distinct(field): the values of the field over the collection, an
\* array contributing its elements; documents without the field contribute
\* nothing.
distinct(collection, fld) ==
  UNION {LET v == collection[i][fld]
         IN IF v[1] = "list" THEN {v[2][j] : j \in 1..Len(v[2])} ELSE {v} :
         i \in {n \in 1..Len(collection) : fld \in DOMAIN collection[n]}}

\* db.list_collection_names(): a collection exists once it holds a document.
list_collection_names ==
  (IF Len(product) > 0 THEN <<"product">> ELSE <<>>)
    \o (IF Len(order) > 0 THEN <<"order">> ELSE <<>>)

---------------------------------------------------------------------------
(* sorted() over strings, line 166 *)

\* a < b for two str values: the first differing code point decides, a proper
\* prefix is smaller.
StrLess(a, b) ==
  \E i \in 1..Len(b[2]) :
    /\ i <= Len(a[2]) + 1
    /\ \A j \in 1..(i - 1) : a[2][j] = b[2][j]
    /\ (i = Len(a[2]) + 1 \/ Ord(a[2][i]) < Ord(b[2][i]))

\* sorted(..., reverse=True)
RECURSIVE sorted_descending(_)
sorted_descending(S) ==
  IF S = {} THEN <<>>
  ELSE LET m == CHOOSE x \in S : \A y \in S \ {x} : StrLess(y, x)
       IN <<m>> \o sorted_descending(S \ {m})

RECURSIVE sorted(_)
sorted(S) ==
  IF S = {} THEN <<>>
  ELSE LET m == CHOOSE x \in S : \A y \in S \ {x} : StrLess(x, y)
       IN <<m>> \o sorted(S \ {m})

---------------------------------------------------------------------------
(* Order schemas, lines 50-61 *)

\* OrderItem with the constraint of line 54 written ge=0.
OrderItemValidGe0(item) ==
  /\ item[1] = "dict"
  /\ {"product_id", "title", "price", "quantity"} \subseteq DOMAIN item[2]
  /\ item[2].product_id[1] = "str"
  /\ item[2].title[1] = "str"
  /\ item[2].price[1] = "float"
  /\ item[2].quantity[1] = "int"
  /\ item[2].quantity[2] >= 0

\* OrderItem: product_id and title are strings, price a float, quantity an
\* integer with Field(ge=1).
OrderItemValid(item) ==
  /\ item[1] = "dict"
  /\ {"product_id", "title", "price", "quantity"} \subseteq DOMAIN item[2]
  /\ item[2].product_id[1] = "str"
  /\ item[2].title[1] = "str"
  /\ item[2].price[1] = "float"
  /\ item[2].quantity[1] = "int"
  /\ item[2].quantity[2] >= 1

\* OrderCreate: name, email, address and items are required, notes is
\* optional (a string or None).
OrderCreateValid(body) ==
  /\ {"name", "email", "address", "items"} \subseteq DOMAIN body
  /\ body.name[1] = "str"
  /\ body.email[1] = "str"
  /\ body.address[1] = "str"
  /\ body.items[1] = "list"
  /\ \A i \in 1..Len(body.items[2]) : OrderItemValid(body.items[2][i])
  /\ "notes" \in DOMAIN body => body.notes[1] \in {"str", "None"}

\* model_dump(exclude_none=True): a notes of None is left out.
model_dump_exclude_none(body) ==
  [k \in {"name", "email", "address", "items"}
          \cup (IF Truthy(DictGet(body, "notes")) THEN {"notes"} ELSE {}) |->
     IF k = "items"
     THEN List([i \in 1..Len(body.items[2]) |->
                  Dict([f \in {"product_id", "title", "price", "quantity"} |->
                          body.items[2][i][2][f]])])
     ELSE body[k]]

\* order.model_dump(): the declared fields, notes defaulting to None.
model_dump(body) ==
  [k \in {"name", "email", "address", "items", "notes"} |->
     IF k = "notes" THEN DictGet(body, "notes")
     ELSE IF k = "items"
     THEN List([i \in 1..Len(body.items[2]) |->
                  Dict([f \in {"product_id", "title", "price", "quantity"} |->
                          body.items[2][i][2][f]])])
     ELSE body[k]]

\* sum(item.price * item.quantity for item in order.items), line 172, in
\* thousandths: the running sum over the items in order, starting from 0.
RECURSIVE SumItems(_)
SumItems(items) ==
  IF Len(items) = 0 THEN 0
  ELSE SumItems(SubSeq(items, 1, Len(items) - 1))
         + items[Len(items)][2].price[2] * items[Len(items)][2].quantity[2]

\* round(x, 2) of a float x given in thousandths: the nearest hundredth, a
\* value exactly half way between two hundredths going to the even one.
Round2(m) ==
  LET q == m \div 10
      r == m % 10
  IN 10 * (IF r < 5 THEN q
           ELSE IF r > 5 THEN q + 1
           ELSE IF q % 2 = 0 THEN q ELSE q + 1)

\* round(total, 2), line 174: sum() of no items is the int 0 and stays an
\* int, any other total is a float.
OrderTotal(items) ==
  IF Len(items) = 0 THEN PyInt(0) ELSE Float(Round2(SumItems(items)))

---------------------------------------------------------------------------
(* Seed data, lines 65-121 *)

SEED_PRODUCT_1 ==
  [
  title |-> Str(<<"M", "o", "r", "e", "N", "u", "t", "r", "i", "t", "i", "o", "n", " ", "C", "l",
        "e", "a", "r", " ", "W", "h", "e", "y", " ", "U+2013", " ", "S", "u", "g", "a",
        "r", " ", "F", "r", "e", "e">>),
  description |-> Str(<<"R", "e", "f", "r", "e", "s", "h", "i", "n", "g", " ", "h", "i", "g", "h", "-",
        "p", "r", "o", "t", "e", "i", "n", ",", " ", "s", "u", "g", "a", "r", "U+2011",
        "f", "r", "e", "e", " ", "c", "l", "e", "a", "r", " ", "w", "h", "e", "y", " ",
        "i", "s", "o", "l", "a", "t", "e", " ", "w", "i", "t", "h", " ", "n", "a", "t",
        "u", "r", "a", "l", " ", "f", "l", "a", "v", "o", "r", "s", ".">>),
  price |-> Float(29990),
  category |-> Str(<<"P", "r", "o", "t", "e", "i", "n">>),
  in_stock |-> Bool(TRUE),
  image_url |-> Str(<<"h", "t", "t", "p", "s", ":", "/", "/", "i", "m", "a", "g", "e", "s", ".", "u",
        "n", "s", "p", "l", "a", "s", "h", ".", "c", "o", "m", "/", "p", "h", "o", "t",
        "o", "-", "1", "5", "1", "7", "6", "7", "7", "2", "0", "8", "1", "7", "1", "-",
        "0", "b", "c", "6", "7", "2", "5", "a", "3", "e", "6", "0", "?", "q", "=", "8",
        "0", "&", "w", "=", "1", "2", "0", "0", "&", "a", "u", "t", "o", "=", "f", "o",
        "r", "m", "a", "t", "&", "f", "i", "t", "=", "c", "r", "o", "p">>),
  brand |-> Str(<<"M", "o", "r", "e", "N", "u", "t", "r", "i", "t", "i", "o", "n">>),
  sugar_free |-> Bool(TRUE),
  tags |-> List(<<Str(<<"p", "r", "o", "t", "e", "i", "n">>), Str(<<"s", "u", "g", "a", "r", "-", "f", "r", "e", "e">>), Str(<<"l", "o", "w", "-", "c", "a", "l", "o", "r", "i", "e">>)>>)
  ]

SEED_PRODUCT_2 ==
  [
  title |-> Str(<<"M", "o", "r", "e", "N", "u", "t", "r", "i", "t", "i", "o", "n", " ", "V", "e",
        "g", "a", "n", " ", "P", "r", "o", "t", "e", "i", "n", " ", "U+2013", " ", "C",
        "h", "o", "c", "o", "l", "a", "t", "e">>),
  description |-> Str(<<"P", "l", "a", "n", "t", "-", "b", "a", "s", "e", "d", " ", "p", "r", "o", "t",
        "e", "i", "n", " ", "b", "l", "e", "n", "d", ",", " ", "s", "w", "e", "e", "t",
        "e", "n", "e", "d", " ", "w", "i", "t", "h", "o", "u", "t", " ", "s", "u", "g",
        "a", "r", ".", " ", "S", "m", "o", "o", "t", "h", " ", "c", "h", "o", "c", "o",
        "l", "a", "t", "e", " ", "t", "a", "s", "t", "e", ".">>),
  price |-> Float(24500),
  category |-> Str(<<"P", "r", "o", "t", "e", "i", "n">>),
  in_stock |-> Bool(TRUE),
  image_url |-> Str(<<"h", "t", "t", "p", "s", ":", "/", "/", "i", "m", "a", "g", "e", "s", ".", "u",
        "n", "s", "p", "l", "a", "s", "h", ".", "c", "o", "m", "/", "p", "h", "o", "t",
        "o", "-", "1", "5", "4", "9", "5", "7", "5", "8", "1", "0", "-", "4", "5", "d",
        "1", "3", "4", "4", "b", "9", "b", "2", "a", "?", "q", "=", "8", "0", "&", "w",
        "=", "1", "2", "0", "0", "&", "a", "u", "t", "o", "=", "f", "o", "r", "m", "a",
        "t", "&", "f", "i", "t", "=", "c", "r", "o", "p">>),
  brand |-> Str(<<"M", "o", "r", "e", "N", "u", "t", "r", "i", "t", "i", "o", "n">>),
  sugar_free |-> Bool(TRUE),
  tags |-> List(<<Str(<<"v", "e", "g", "a", "n">>), Str(<<"p", "r", "o", "t", "e", "i", "n">>), Str(<<"d", "a", "i", "r", "y", "-", "f", "r", "e", "e">>)>>)
  ]

SEED_PRODUCT_3 ==
  [
  title |-> Str(<<"M", "o", "r", "e", "N", "u", "t", "r", "i", "t", "i", "o", "n", " ", "V", "i",
        "t", "a", "m", "i", "n", " ", "G", "u", "m", "m", "i", "e", "s", " ", "U+2013",
        " ", "S", "u", "g", "a", "r", " ", "F", "r", "e", "e">>),
  description |-> Str(<<"D", "a", "i", "l", "y", " ", "m", "u", "l", "t", "i", "v", "i", "t", "a", "m",
        "i", "n", " ", "g", "u", "m", "m", "i", "e", "s", " ", "w", "i", "t", "h", " ",
        "z", "e", "r", "o", " ", "s", "u", "g", "a", "r", " ", "a", "n", "d", " ", "n",
        "a", "t", "u", "r", "a", "l", " ", "f", "r", "u", "i", "t", " ", "f", "l", "a",
        "v", "o", "r", "s", ".">>),
  price |-> Float(14900),
  category |-> Str(<<"V", "i", "t", "a", "m", "i", "n", "s">>),
  in_stock |-> Bool(TRUE),
  image_url |-> Str(<<"h", "t", "t", "p", "s", ":", "/", "/", "i", "m", "a", "g", "e", "s", ".", "u",
        "n", "s", "p", "l", "a", "s", "h", ".", "c", "o", "m", "/", "p", "h", "o", "t",
        "o", "-", "1", "5", "7", "6", "0", "9", "2", "7", "6", "8", "2", "4", "1", "-",
        "d", "e", "c", "2", "3", "1", "8", "7", "9", "f", "c", "3", "?", "q", "=", "8",
        "0", "&", "w", "=", "1", "2", "0", "0", "&", "a", "u", "t", "o", "=", "f", "o",
        "r", "m", "a", "t", "&", "f", "i", "t", "=", "c", "r", "o", "p">>),
  brand |-> Str(<<"M", "o", "r", "e", "N", "u", "t", "r", "i", "t", "i", "o", "n">>),
  sugar_free |-> Bool(TRUE),
  tags |-> List(<<Str(<<"v", "i", "t", "a", "m", "i", "n", "s">>), Str(<<"g", "u", "m", "m", "i", "e", "s">>), Str(<<"i", "m", "m", "u", "n", "e">>)>>)
  ]

SEED_PRODUCT_4 ==
  [
  title |-> Str(<<"M", "o", "r", "e", "N", "u", "t", "r", "i", "t", "i", "o", "n", " ", "F", "l",
        "a", "v", "o", "r", " ", "D", "r", "o", "p", "s", " ", "U+2013", " ", "S", "u",
        "g", "a", "r", " ", "F", "r", "e", "e", " ", "V", "a", "n", "i", "l", "l", "a">>),
  description |-> Str(<<"C", "a", "l", "o", "r", "i", "e", "U+2011", "f", "r", "e", "e", " ", "f", "l",
        "a", "v", "o", "r", " ", "d", "r", "o", "p", "s", " ", "t", "o", " ", "s", "w",
        "e", "e", "t", "e", "n", " ", "s", "h", "a", "k", "e", "s", ",", " ", "y", "o",
        "g", "u", "r", "t", ",", " ", "a", "n", "d", " ", "c", "o", "f", "f", "e", "e", ".">>),
  price |-> Float(9990),
  category |-> Str(<<"F", "l", "a", "v", "o", "r", "i", "n", "g">>),
  in_stock |-> Bool(TRUE),
  image_url |-> Str(<<"h", "t", "t", "p", "s", ":", "/", "/", "i", "m", "a", "g", "e", "s", ".", "u",
        "n", "s", "p", "l", "a", "s", "h", ".", "c", "o", "m", "/", "p", "h", "o", "t",
        "o", "-", "1", "5", "1", "9", "6", "8", "1", "3", "9", "3", "7", "8", "4", "-",
        "d", "1", "2", "0", "2", "6", "7", "9", "3", "3", "b", "a", "?", "q", "=", "8",
        "0", "&", "w", "=", "1", "2", "0", "0", "&", "a", "u", "t", "o", "=", "f", "o",
        "r", "m", "a", "t", "&", "f", "i", "t", "=", "c", "r", "o", "p">>),
  brand |-> Str(<<"M", "o", "r", "e", "N", "u", "t", "r", "i", "t", "i", "o", "n">>),
  sugar_free |-> Bool(TRUE),
  tags |-> List(<<Str(<<"f", "l", "a", "v", "o", "r">>), Str(<<"v", "a", "n", "i", "l", "l", "a">>), Str(<<"d", "r", "o", "p", "s">>)>>)
  ]

SEED_PRODUCT_5 ==
  [
  title |-> Str(<<"M", "o", "r", "e", "N", "u", "t", "r", "i", "t", "i", "o", "n", " ", "Z", "e",
        "r", "o", " ", "S", "y", "r", "u", "p", " ", "U+2013", " ", "C", "h", "o", "c",
        "o", "l", "a", "t", "e">>),
  description |-> Str(<<"R", "i", "c", "h", " ", "c", "h", "o", "c", "o", "l", "a", "t", "e", " ", "s",
        "y", "r", "u", "p", " ", "w", "i", "t", "h", " ", "z", "e", "r", "o", " ", "s",
        "u", "g", "a", "r", " ", "U+2013", " ", "p", "e", "r", "f", "e", "c", "t", " ",
        "f", "o", "r", " ", "p", "a", "n", "c", "a", "k", "e", "s", " ", "o", "r", " ",
        "o", "a", "t", "s", ".">>),
  price |-> Float(6990),
  category |-> Str(<<"S", "y", "r", "u", "p", "s">>),
  in_stock |-> Bool(TRUE),
  image_url |-> Str(<<"h", "t", "t", "p", "s", ":", "/", "/", "i", "m", "a", "g", "e", "s", ".", "u",
        "n", "s", "p", "l", "a", "s", "h", ".", "c", "o", "m", "/", "p", "h", "o", "t",
        "o", "-", "1", "5", "4", "6", "5", "4", "9", "0", "3", "9", "-", "9", "8", "b",
        "f", "4", "f", "8", "c", "7", "1", "d", "1", "?", "q", "=", "8", "0", "&", "w",
        "=", "1", "2", "0", "0", "&", "a", "u", "t", "o", "=", "f", "o", "r", "m", "a",
        "t", "&", "f", "i", "t", "=", "c", "r", "o", "p">>),
  brand |-> Str(<<"M", "o", "r", "e", "N", "u", "t", "r", "i", "t", "i", "o", "n">>),
  sugar_free |-> Bool(TRUE),
  tags |-> List(<<Str(<<"s", "y", "r", "u", "p">>), Str(<<"z", "e", "r", "o">>), Str(<<"t", "o", "p", "p", "i", "n", "g">>)>>)
  ]

SEED_PRODUCTS ==
  <<SEED_PRODUCT_1, SEED_PRODUCT_2, SEED_PRODUCT_3, SEED_PRODUCT_4, SEED_PRODUCT_5>>

---------------------------------------------------------------------------
(* Bounds and inputs *)

\* The most orders the order collection holds.
MaxOrders == 2

DbValues == {"None", "Database", "DatabaseNoName"}

\* A product as another writer of the same store left it.
Legacy(title, description, category, tags) ==
  [title |-> title, description |-> description, category |-> category,
   tags |-> tags, price |-> Float(1000)]

LEGACY_1 ==
  Legacy(Str(<<"W", "h", "e", "y">>), Str(<<"i", "s", "o">>),
         Str(<<"V", "i", "t", "a", "m", "i", "n", "s">>),
         List(<<Str(<<"a", ".", "b">>)>>))

LEGACY_2 ==
  Legacy(Str(<<"B", "a", "r">>), Str(<<"w", "h", "e", "y", " ", "b", "a", "r">>),
         Str(<<"P", "r", "o", "t", "e", "i", "n">>), List(<<>>))

LEGACY_3 ==
  Legacy(Str(<<"G", "e", "l">>), Str(<<"g", "e", "l">>),
         Str(<<"P", "r", "o", "t", "e", "i", "n">>),
         List(<<Str(<<"g", "e", "l">>), Str(<<"W", "H", "E", "Y">>)>>))

LEGACY_4 ==
  Legacy(Str(<<"O", "a", "t">>), Str(<<>>),
         Str(<<"p", "r", "o", "t", "e", "i", "n">>), List(<<>>))

LEGACY_5 ==
  Legacy(Str(<<"N", "u", "t">>), Str(<<"n", "u", "t">>),
         Str(<<"P", "R", "O", "T", "E", "I", "N">>), List(<<>>))

LEGACY_6 ==
  Legacy(Str(<<"T", "e", "a">>), Str(<<"t", "e", "a">>),
         Str(<<"P", "r", "o", "t", "e", "i", "n", "s">>), List(<<>>))

LEGACY_7 ==
  Legacy(Str(<<"I", "c", "e">>), Str(<<"i", "c", "e">>), Str(<<>>), List(<<>>))

LEGACY_8 ==
  Legacy(Str(<<"J", "a", "m">>), Str(<<"j", "a", "m">>), None, List(<<>>))

\* The documents of a collection as the store holds them: each under the
\* identifier it was given on insertion.
Stored(docs) == [i \in 1..Len(docs) |-> DictSet(docs[i], "_id", ObjectId(i))]

\* The product collections a process may find when it starts.
InitialProducts ==
  {<<>>,
   Stored(<<LEGACY_1, LEGACY_2, LEGACY_3>>),
   Stored(<<LEGACY_4, LEGACY_5, LEGACY_6, LEGACY_7, LEGACY_8>>)}

\* The category arguments of GET /api/products.
CategoryArgs ==
  {None, Str(<<>>), Str(<<"P", "r", "o", "t", "e", "i", "n">>),
   Str(<<"P", "r", "o", ".", "e", "i", "n">>)}

\* The search arguments of GET /api/products.
SearchArgs ==
  {None, Str(<<"W", "H", "E", "Y">>), Str(<<"w", "h", ".", "y">>), Str(<<"z", "z">>)}

Item(price, quantity) ==
  Dict([product_id |-> Str(<<"p", "1">>), title |-> Str(<<"W", "h", "e", "y">>),
        price |-> Float(price), quantity |-> PyInt(quantity)])

\* The item lists of the order payloads: prices 10, 5 and 0.125, and
\* quantities from -1 to 3; the last list has an item without a title.
ItemLists ==
  {<<>>,
   <<Item(10000, 2), Item(5000, 3)>>,
   <<Item(125, 1)>>,
   <<Item(10000, 0)>>,
   <<Item(10000, 2), Item(5000, 0)>>,
   <<Item(5000, -1)>>,
   <<Dict([product_id |-> Str(<<"p", "1">>), price |-> Float(5000),
           quantity |-> PyInt(1)])>>}

OrderBody(items) ==
  [name |-> Str(<<"A", "n", "n">>), email |-> Str(<<"a", "@", "b">>),
   address |-> Str(<<"1", " ", "R", "d">>), items |-> List(items)]

\* The JSON bodies of POST /api/orders: every item list, with and without
\* notes, and one body for each required field left out.
OrderBodies ==
  {OrderBody(items) : items \in ItemLists}
    \cup {DictSet(OrderBody(<<Item(125, 3)>>), "notes", Str(<<"h", "i">>))}
    \cup {DictPop(OrderBody(<<Item(10000, 2), Item(5000, 3)>>), k) :
            k \in {"name", "email", "address", "items"}}

---------------------------------------------------------------------------
(* State *)

\* The two collections as one value.
Store == [product |-> product, order |-> order]

\* A response: the operation and its arguments, the store as the handler
\* found it (db and storeOk when the request arrived), the HTTP status, the
\* body, and the number of storage calls the handler issued.
Response(op, args, status, body, calls) ==
  [op |-> op, args |-> args, db |-> db, storeOk |-> storeOk,
   status |-> status, body |-> body, calls |-> calls]

\* HTTPException(status_code=500, detail="Database not available")
NotAvailable == [detail |-> "Database not available"]

\* The framework's answer to an exception no handler catches.
InternalServerError == [detail |-> "Internal Server Error"]

\* The framework's answer to a body that fails validation.
ValidationError == [detail |-> "validation error"]

\* No request is being served.
NoResponse ==
  [op |-> "none", args |-> <<>>, db |-> "None", storeOk |-> FALSE,
   status |-> 0, body |-> <<>>, calls |-> 0]

Idle == resp = NoResponse

Init ==
  /\ db \in DbValues
  /\ storeOk \in BOOLEAN
  /\ product \in InitialProducts
  /\ order = <<>>
  /\ resp = NoResponse
  /\ sdoc = None
  /\ sret = <<>>
  /\ spc = "idle"

---------------------------------------------------------------------------
(* Startup seeding, lines 123-133 *)

\* The loop of lines 130-131 over the first k seed products.
RECURSIVE SeedLoop(_, _)
SeedLoop(store, k) ==
  IF k = 0 THEN store
  ELSE create_document(SeedLoop(store, k - 1), "product", SEED_PRODUCTS[k]).store

\* Startup without the count of lines 128-129: the seed is inserted whatever
\* the collection holds.
Startup_without_count(dbv, k) ==
  /\ Idle
  /\ db' = dbv
  /\ IF dbv = "None" \/ ~storeOk
     THEN /\ k = Len(SEED_PRODUCTS)
          /\ UNCHANGED <<product, storeOk>>
          /\ resp' = [Response("startup", <<>>, 0, <<>>, 0) EXCEPT !.db = dbv]
     ELSE /\ product' = SeedLoop(Store, k).product
          /\ storeOk' = (k = Len(SEED_PRODUCTS))
          /\ resp' = [Response("startup", <<>>, 0, <<>>,
                               IF k = Len(SEED_PRODUCTS) THEN k ELSE k + 1)
                        EXCEPT !.db = dbv]
  /\ UNCHANGED <<order, sdoc, sret, spc>>

\* A process starts: database.py sets db, then seed_products_if_empty runs.
\* k is the number of seed products inserted before a call raises (all of
\* them when none does); the exception is swallowed at lines 132-133.
Startup(dbv, k) ==
  /\ Idle
  /\ db' = dbv
  /\ IF dbv = "None"
     THEN /\ k = Len(SEED_PRODUCTS)
          /\ UNCHANGED <<product, storeOk>>
          /\ resp' = [Response("startup", <<>>, 0, <<>>, 0) EXCEPT !.db = dbv]
     ELSE IF ~storeOk
     THEN /\ k = Len(SEED_PRODUCTS)
          /\ UNCHANGED <<product, storeOk>>
          /\ resp' = [Response("startup", <<>>, 0, <<>>, 1) EXCEPT !.db = dbv]
     ELSE IF count_documents(product) # 0
     THEN /\ k = Len(SEED_PRODUCTS)
          /\ UNCHANGED <<product, storeOk>>
          /\ resp' = [Response("startup", <<>>, 0, <<>>, 1) EXCEPT !.db = dbv]
     ELSE /\ product' = SeedLoop(Store, k).product
          /\ storeOk' = (k = Len(SEED_PRODUCTS))
          /\ resp' = [Response("startup", <<>>, 0, <<>>,
                               IF k = Len(SEED_PRODUCTS) THEN k + 1 ELSE k + 2)
                        EXCEPT !.db = dbv]
  /\ UNCHANGED <<order, sdoc, sret, spc>>

---------------------------------------------------------------------------
(* GET /api/products, lines 145-159 *)

\* The filter of lines 149-157.
ProductQuery(category, search) ==
  LET q0 == <<>>
      q1 == IF Truthy(category)
            THEN DictSet(q0, "category",
                         [regex |-> <<"^">> \o category[2] \o <<"$">>, options |-> "i"])
            ELSE q0
      q2 == IF Truthy(search)
            THEN DictSet(q1, "$or",
                         <<[field |-> "title", regex |-> search[2], options |-> "i"],
                           [field |-> "description", regex |-> search[2], options |-> "i"],
                           [field |-> "tags", regex |-> search[2], options |-> "i"]>>)
            ELSE q1
  IN q2

\* list_products returning the documents as the store holds them.
list_products_unserialized(category, search) ==
  /\ Idle
  /\ resp' =
       IF db = "None"
       THEN Response("list_products", <<category, search>>, 500, NotAvailable, 0)
       ELSE IF ~storeOk
       THEN Response("list_products", <<category, search>>, 500, InternalServerError, 1)
       ELSE Response("list_products", <<category, search>>, 200,
                     get_documents(product, ProductQuery(category, search)), 1)
  /\ UNCHANGED <<db, storeOk, product, order, sdoc, sret, spc>>

list_products(category, search) ==
  /\ Idle
  /\ resp' =
       IF db = "None"
       THEN Response("list_products", <<category, search>>, 500, NotAvailable, 0)
       ELSE IF ~storeOk
       THEN Response("list_products", <<category, search>>, 500, InternalServerError, 1)
       ELSE LET docs == get_documents(product, ProductQuery(category, search))
            IN Response("list_products", <<category, search>>, 200,
                        [i \in 1..Len(docs) |-> serialize_doc(Dict(docs[i])).ret[2]], 1)
  /\ UNCHANGED <<db, storeOk, product, order, sdoc, sret, spc>>

---------------------------------------------------------------------------
(* GET /api/categories, lines 161-166 *)

list_categories ==
  /\ Idle
  /\ resp' =
       IF db = "None"
       THEN Response("list_categories", <<>>, 200, <<>>, 0)
       ELSE IF ~storeOk
       THEN Response("list_categories", <<>>, 500, InternalServerError, 1)
       ELSE LET cats == distinct(product, "category")
            IN Response("list_categories", <<>>, 200,
                        sorted({c \in cats : Truthy(c)}), 1)
  /\ UNCHANGED <<db, storeOk, product, order, sdoc, sret, spc>>

---------------------------------------------------------------------------
(* POST /api/orders, lines 168-176 *)

\* The handler body without the check of lines 170-171: with db None the
\* insert raises, an unhandled error.
create_order_body_unchecked(body) ==
  IF db = "None" \/ ~storeOk
  THEN /\ resp' = Response("create_order", <<body>>, 500, InternalServerError, 1)
       /\ UNCHANGED order
  ELSE LET total == OrderTotal(body.items[2])
           data == DictSet(model_dump(body), "total", total)
           created == create_document(Store, "order", data)
       IN /\ Len(order) < MaxOrders
          /\ order' = created.store.order
          /\ resp' = Response("create_order", <<body>>, 200,
                              [id |-> created.id, total |-> data["total"],
                               status |-> "received"], 1)

\* The handler body, run once the framework has validated the JSON body.
create_order_body(body) ==
  IF db = "None"
  THEN /\ resp' = Response("create_order", <<body>>, 500, NotAvailable, 0)
       /\ UNCHANGED order
  ELSE IF ~storeOk
  THEN /\ resp' = Response("create_order", <<body>>, 500, InternalServerError, 1)
       /\ UNCHANGED order
  ELSE LET total == OrderTotal(body.items[2])
           data == DictSet(model_dump(body), "total", total)
           created == create_document(Store, "order", data)
       IN /\ Len(order) < MaxOrders
          /\ order' = created.store.order
          /\ resp' = Response("create_order", <<body>>, 200,
                              [id |-> created.id, total |-> data["total"],
                               status |-> "received"], 1)

create_order(body) ==
  /\ Idle
  /\ IF ~OrderCreateValid(body)
     THEN /\ resp' = Response("create_order", <<body>>, 422, ValidationError, 0)
          /\ UNCHANGED order
     ELSE create_order_body(body)
  /\ UNCHANGED <<db, storeOk, product, sdoc, sret, spc>>

---------------------------------------------------------------------------
(* GET /test, lines 178-208 *)

\* db.name of the database the process is connected to.
DatabaseName == "appdb"

\* str(e)[:50] of the exception a storage call raises.
StoreErrorText == "store unreachable"

\* The report; envUrl and envName say whether DATABASE_URL and DATABASE_NAME
\* are set in the environment.
TestReport(envUrl, envName) ==
  LET r0 == [backend |-> "U+2705 Running",
             database |-> "U+274C Not Available",
             database_url |-> "None",
             database_name |-> "None",
             connection_status |-> "Not Connected",
             collections |-> <<>>]
      r1 == IF db # "None"
            THEN LET a == [r0 EXCEPT
                             !.database = "U+2705 Available",
                             !.database_url = "U+2705 Configured",
                             !.database_name = IF db = "Database" THEN DatabaseName
                                               ELSE "U+2705 Connected",
                             !.connection_status = "Connected"]
                 IN IF storeOk
                    THEN [a EXCEPT
                            !.collections = SubSeq(list_collection_names, 1,
                                                   IF Len(list_collection_names) < 10
                                                   THEN Len(list_collection_names)
                                                   ELSE 10),
                            !.database = "U+2705 Connected & Working"]
                    ELSE [a EXCEPT
                            !.database = "U+26A0 Connected but Error: " \o StoreErrorText]
            ELSE [r0 EXCEPT !.database = "U+26A0 Available but not initialized"]
  IN [r1 EXCEPT
        !.database_url = IF envUrl THEN "U+2705 Set" ELSE "U+274C Not Set",
        !.database_name = IF envName THEN "U+2705 Set" ELSE "U+274C Not Set"]

\* test_database without the inner try of lines 195-200 and the outer one of
\* lines 189-204: a failing list_collection_names is an unhandled error.
test_database_uncaught(envUrl, envName) ==
  /\ Idle
  /\ resp' = IF db # "None" /\ ~storeOk
             THEN Response("test_database", <<envUrl, envName>>, 500,
                           InternalServerError, 1)
             ELSE Response("test_database", <<envUrl, envName>>, 200,
                           TestReport(envUrl, envName),
                           IF db = "None" THEN 0 ELSE 1)
  /\ UNCHANGED <<db, storeOk, product, order, sdoc, sret, spc>>

test_database(envUrl, envName) ==
  /\ Idle
  /\ resp' = Response("test_database", <<envUrl, envName>>, 200,
                      TestReport(envUrl, envName),
                      IF db = "None" THEN 0 ELSE 1)
  /\ UNCHANGED <<db, storeOk, product, order, sdoc, sret, spc>>

---------------------------------------------------------------------------
(* The store's server *)

\* The store stops answering: from here every storage call raises.  A
\* handler reads the store once, so a change while a response is going out
\* is a change after it.
StoreGoesDown ==
  /\ Idle
  /\ storeOk
  /\ storeOk' = FALSE
  /\ UNCHANGED <<db, product, order, resp, sdoc, sret, spc>>

\* The store answers again.
StoreComesUp ==
  /\ Idle
  /\ ~storeOk
  /\ storeOk' = TRUE
  /\ UNCHANGED <<db, product, order, resp, sdoc, sret, spc>>

\* The response has gone out (or startup has finished): the server waits
\* for the next request.
ResponseSent ==
  /\ ~Idle
  /\ resp' = NoResponse
  /\ UNCHANGED <<db, storeOk, product, order, sdoc, sret, spc>>

Next ==
  \/ \E dbv \in DbValues, k \in 0..Len(SEED_PRODUCTS) : Startup(dbv, k)
  \/ \E category \in CategoryArgs, search \in SearchArgs : list_products(category, search)
  \/ list_categories
  \/ \E body \in OrderBodies : create_order(body)
  \/ \E envUrl \in BOOLEAN, envName \in BOOLEAN : test_database(envUrl, envName)
  \/ ResponseSent
  \/ StoreGoesDown
  \/ StoreComesUp

Spec == Init /\ [][Next]_vars

---------------------------------------------------------------------------
(* serialize_doc applied to a record, and again to its result *)

SerializeKeys == {"_id", "id", "ref", "title"}

SerializeValues(key) ==
  CASE key = "_id" -> {ObjectId(1), Str(<<"a", "b">>), Str(<<>>), PyInt(0), PyInt(7), None}
    [] key = "id" -> {Str(<<"x">>), ObjectId(2)}
    [] key = "ref" -> {ObjectId(3), List(<<ObjectId(4)>>)}
    [] OTHER -> {Str(<<"W", "h", "e", "y">>)}

\* The records serialize_doc is applied to: the absent value, the empty
\* mapping, and every mapping over the keys above.
SerializeInputs ==
  {None}
    \cup UNION {{Dict(f) : f \in {g \in [K -> UNION {SerializeValues(k) : k \in SerializeKeys}] :
                                    \A k \in K : g[k] \in SerializeValues(k)}} :
                K \in SUBSET SerializeKeys}

InitSerialize ==
  /\ db = "None"
  /\ storeOk = FALSE
  /\ product = <<>>
  /\ order = <<>>
  /\ resp = NoResponse
  /\ sdoc \in SerializeInputs
  /\ sret = <<>>
  /\ spc = "arg"

\* r = serialize_doc(doc)
SerializeOnce ==
  /\ spc = "arg"
  /\ sdoc' = serialize_doc(sdoc).arg
  /\ sret' = <<serialize_doc(sdoc).ret>>
  /\ spc' = "once"
  /\ UNCHANGED <<db, storeOk, product, order, resp>>

\* serialize_doc(r): sret[1] is r as the second call leaves it, sret[2] the
\* value the second call returns.
SerializeTwice ==
  /\ spc = "once"
  /\ sret' = <<serialize_doc(sret[1]).arg, serialize_doc(sret[1]).ret>>
  /\ spc' = "twice"
  /\ UNCHANGED <<db, storeOk, product, order, resp, sdoc>>

NextSerialize == SerializeOnce \/ SerializeTwice

SpecSerialize == InitSerialize /\ [][NextSerialize]_vars

---------------------------------------------------------------------------
(* Properties *)

\* The products a response lists, by identifier.
ListedIds(body) == [i \in 1..Len(body) |-> DictGet(body[i], "id")]

\* sub occurs in s, ignoring case.
ContainsIgnoreCase(s, sub) ==
  \E i \in 1..(Len(s) + 1) :
    /\ i + Len(sub) - 1 <= Len(s)
    /\ \A j \in 1..Len(sub) : Fold(s[i + j - 1]) = Fold(sub[j])

\* s equals t, ignoring case.
EqualIgnoreCase(s, t) ==
  Len(s) = Len(t) /\ \A i \in 1..Len(s) : Fold(s[i]) = Fold(t[i])

\* The category filter as the claim states it; an empty argument counts as
\* not supplied.
CategoryFilter(doc, category) ==
  Truthy(category) =>
    /\ DictGet(doc, "category")[1] = "str"
    /\ EqualIgnoreCase(doc.category[2], category[2])

\* The search filter as the claim states it.
SearchFilter(doc, search) ==
  Truthy(search) =>
    \/ DictGet(doc, "title")[1] = "str" /\ ContainsIgnoreCase(doc.title[2], search[2])
    \/ DictGet(doc, "description")[1] = "str"
         /\ ContainsIgnoreCase(doc.description[2], search[2])
    \/ DictGet(doc, "tags")[1] = "list"
         /\ \E i \in 1..Len(doc.tags[2]) :
              doc.tags[2][i][1] = "str"
                /\ ContainsIgnoreCase(doc.tags[2][i][2], search[2])

\* C1: with the store available, list_products returns exactly the products
\* whose category equals the category argument as a whole string, ignoring
\* case, and whose title, description or some tag contains the search
\* argument as a substring, ignoring case; a filter not supplied imposes no
\* restriction.
C1_ListProductsFiltersLiterally ==
  (resp.op = "list_products" /\ resp.db # "None" /\ resp.storeOk) =>
    /\ resp.status = 200
    /\ LET wanted == SelectSeq(product, LAMBDA doc :
                       CategoryFilter(doc, resp.args[1])
                         /\ SearchFilter(doc, resp.args[2]))
       IN ListedIds(resp.body) = [i \in 1..Len(wanted) |-> ObjectIdStr(wanted[i]["_id"])]

\* The exact sum of price * quantity over the items, in thousandths.
RECURSIVE ExactSum(_, _)
ExactSum(items, n) ==
  IF n = 0 THEN 0
  ELSE ExactSum(items, n - 1) + items[n][2].price[2] * items[n][2].quantity[2]

\* Rounding to the nearest hundredth, a half rounding up; in thousandths.
RoundHalfUp(m) == 10 * ((m + 5) \div 10)

\* C2: the total persisted and returned by an accepted create_order is the
\* sum of price * quantity over the items rounded to 2 decimal places by
\* standard rounding (half up); items 10 x 2 and 5 x 3 give 35.00.
C2_TotalRoundedHalfUp ==
  (resp.op = "create_order" /\ resp.status = 200) =>
    LET items == resp.args[1].items[2]
    IN /\ resp.body.total[2] = RoundHalfUp(ExactSum(items, Len(items)))
       /\ order[Len(order)].total = resp.body.total

\* A body the claim calls invalid: a required field is missing, or an item
\* has a quantity below 1.
ClaimedInvalid(body) ==
  \/ \E k \in {"name", "email", "address", "items"} : k \notin DOMAIN body
  \/ \E i \in 1..Len(body.items[2]) : body.items[2][i][2].quantity[2] < 1

\* C3: a create_order whose body lacks name, email, address or items, or has
\* an item of quantity below 1, is answered 422 without a storage call,
\* whatever the store's state, and changes neither collection.
C3_InvalidOrderRejected ==
  [][(Idle /\ resp'.op = "create_order" /\ ClaimedInvalid(resp'.args[1])) =>
       /\ resp'.status = 422
       /\ resp'.calls = 0
       /\ order' = order
       /\ product' = product]_vars

C3_Witness ==
  /\ resp.op = "create_order"
  /\ resp.status = 422
  /\ resp.db # "None"
  /\ resp.storeOk
  /\ "items" \in DOMAIN resp.args[1]
  /\ \E i \in 1..Len(resp.args[1].items[2]) : resp.args[1].items[2][i][2].quantity[2] = 0

\* A body the schemas accept, stated on the payload's own terms.
ClaimedValid(body) ==
  /\ {"name", "email", "address", "items"} \subseteq DOMAIN body
  /\ \A i \in 1..Len(body.items[2]) :
       /\ {"product_id", "title", "price", "quantity"} \subseteq DOMAIN body.items[2][i][2]
       /\ body.items[2][i][2].quantity[2] >= 1

\* C4: with db None, list_products and create_order (valid body) answer 500,
\* list_categories answers 200 with the empty list; none of them issues a
\* storage call or changes a collection.
C4_UnavailableStore ==
  [][(Idle /\ db = "None") =>
       /\ resp'.op = "list_products" =>
            resp'.status = 500 /\ resp'.body = NotAvailable /\ resp'.calls = 0
       /\ (resp'.op = "create_order" /\ ClaimedValid(resp'.args[1])) =>
            resp'.status = 500 /\ resp'.body = NotAvailable /\ resp'.calls = 0
       /\ resp'.op = "list_categories" =>
            resp'.status = 200 /\ resp'.body = <<>> /\ resp'.calls = 0
       /\ resp'.op \in {"list_products", "create_order", "list_categories"} =>
            order' = order /\ product' = product]_vars

C4_Witness ==
  /\ resp.op = "create_order"
  /\ resp.db = "None"
  /\ resp.status = 500
  /\ ClaimedValid(resp.args[1])
  /\ Len(resp.args[1].items[2]) = 2

\* C5: create_order with a valid body and a working store answers 200; an
\* accepted create_order appends exactly one order, made of the validated
\* payload (notes None when absent), the computed total and a new
\* identifier, returns that identifier as a string with status "received",
\* and changes neither the product collection nor the orders already there.
C5_OrderInsertedOnce ==
  [][(Idle /\ resp'.op = "create_order") =>
       /\ (ClaimedValid(resp'.args[1]) /\ db # "None" /\ storeOk) => resp'.status = 200
       /\ resp'.status = 200 =>
            LET body == resp'.args[1]
                rec == order'[Len(order')]
            IN /\ Len(order') = Len(order) + 1
               /\ SubSeq(order', 1, Len(order)) = order
               /\ product' = product
               /\ DOMAIN rec = {"_id", "name", "email", "address", "items", "notes", "total"}
               /\ \A k \in {"name", "email", "address"} : rec[k] = body[k]
               /\ rec.items[1] = "list"
               /\ Len(rec.items[2]) = Len(body.items[2])
               /\ \A i \in 1..Len(body.items[2]) : rec.items[2][i] = body.items[2][i]
               /\ rec.notes = DictGet(body, "notes")
               /\ rec.total = resp'.body.total
               /\ IsObjectId(rec["_id"])
               /\ \A i \in 1..Len(order) : order[i]["_id"] # rec["_id"]
               /\ \A i \in 1..Len(product) : product[i]["_id"] # rec["_id"]
               /\ resp'.body.id = ObjectIdStr(rec["_id"])
               /\ IsStr(resp'.body.id)
               /\ resp'.body.status = "received"]_vars

C5_Witness ==
  /\ resp.op = "create_order"
  /\ resp.status = 200
  /\ Len(order) = 2
  /\ Len(product) > 0
  /\ order[2].notes = None

\* The seed products a collection holds, without their identifiers.
WithoutIds(collection) ==
  [i \in 1..Len(collection) |->
     [k \in DOMAIN collection[i] \ {"_id"} |-> collection[i][k]]]

\* C6 as stated: the product collection changes only in a startup that has
\* the store available and finds the collection empty, and that startup
\* inserts the fixed seed products; a startup that finds products or has no
\* store inserts nothing; products are never updated or deleted.
C6_SeedInsertedWhole ==
  [][/\ product' # product =>
          resp'.op = "startup" /\ db' # "None" /\ Len(product) = 0
     /\ (Idle /\ resp'.op = "startup" /\ db' # "None" /\ storeOk /\ Len(product) = 0) =>
          WithoutIds(product') = SEED_PRODUCTS
     /\ (Idle /\ resp'.op = "startup" /\ (db' = "None" \/ Len(product) > 0)) =>
          product' = product
     /\ Len(product') >= Len(product)
     /\ SubSeq(product', 1, Len(product)) = product]_vars

\* C6 amended: ... that startup inserts the seed products in order up to the
\* first storage call that raises: a prefix of the seed list, the whole list
\* when no call raises.
C6_SeedInsertedAsPrefix ==
  [][/\ product' # product =>
          resp'.op = "startup" /\ db' # "None" /\ Len(product) = 0
     /\ (Idle /\ resp'.op = "startup" /\ db' # "None" /\ storeOk /\ Len(product) = 0) =>
          /\ Len(product') <= Len(SEED_PRODUCTS)
          /\ WithoutIds(product') = SubSeq(SEED_PRODUCTS, 1, Len(product'))
          /\ storeOk' => WithoutIds(product') = SEED_PRODUCTS
     /\ (Idle /\ resp'.op = "startup" /\ (db' = "None" \/ Len(product) > 0)) =>
          product' = product
     /\ Len(product') >= Len(product)
     /\ SubSeq(product', 1, Len(product)) = product]_vars

C6_Witness ==
  /\ resp.op = "startup"
  /\ resp.calls > 1
  /\ Len(product) = 3
  /\ WithoutIds(product) = SubSeq(SEED_PRODUCTS, 1, 3)
  /\ ~storeOk

C8_ListedWithStringIds ==
  (resp.op = "list_products" /\ resp.db # "None" /\ resp.storeOk) =>
    /\ resp.status = 200
    /\ \A i \in 1..Len(resp.body) :
         /\ "id" \in DOMAIN resp.body[i]
         /\ IsStr(resp.body[i].id)
         /\ "_id" \notin DOMAIN resp.body[i]
         /\ \A k \in DOMAIN resp.body[i] : ~IsObjectId(resp.body[i][k])
    /\ resp.args = <<None, None>> =>
         /\ Len(resp.body) = Len(product)
         /\ \A i \in 1..Len(product) :
              /\ resp.body[i].id = ObjectIdStr(product[i]["_id"])
              /\ DOMAIN resp.body[i] = (DOMAIN product[i] \ {"_id"}) \cup {"id"}
              /\ \A k \in DOMAIN product[i] \ {"_id"} : resp.body[i][k] = product[i][k]

C8_Witness ==
  /\ resp.op = "list_products"
  /\ resp.status = 200
  /\ resp.args = <<None, None>>
  /\ Len(resp.body) = Len(SEED_PRODUCTS)
  /\ WithoutIds(product) = SEED_PRODUCTS

\* a sorts before b, code point by code point.
RECURSIVE LexLess(_, _)
LexLess(a, b) ==
  IF Len(b) = 0 THEN FALSE
  ELSE IF Len(a) = 0 THEN TRUE
  ELSE IF Ord(a[1]) # Ord(b[1]) THEN Ord(a[1]) < Ord(b[1])
  ELSE LexLess(Tail(a), Tail(b))

\* C9: with a working store, list_categories returns the category values of
\* the stored products that are not falsy, each once, in ascending
\* case-sensitive order; categories Vitamins, Protein, Protein give
\* Protein, Vitamins.
C9_CategoriesSortedDistinct ==
  (resp.op = "list_categories" /\ resp.db # "None" /\ resp.storeOk) =>
    /\ resp.status = 200
    /\ {resp.body[i] : i \in 1..Len(resp.body)}
         = {product[i].category : i \in {n \in 1..Len(product) :
              "category" \in DOMAIN product[n] /\ Truthy(product[n].category)}}
    /\ \A i \in 1..(Len(resp.body) - 1) : LexLess(resp.body[i][2], resp.body[i + 1][2])
    /\ product = Stored(<<LEGACY_1, LEGACY_2, LEGACY_3>>) =>
         resp.body = <<Str(<<"P", "r", "o", "t", "e", "i", "n">>),
                       Str(<<"V", "i", "t", "a", "m", "i", "n", "s">>)>>

C9_Witness ==
  /\ resp.op = "list_categories"
  /\ resp.status = 200
  /\ Len(resp.body) = 3
  /\ \E i \in 1..Len(product) : ~Truthy(product[i].category)

\* C10: serialize_doc leaves its argument as it was, returns an absent or
\* empty record as it is, and applied to its own result returns that result
\* again, leaving it as it was.
C10_SerializeIdempotent ==
  [][/\ (spc = "arg" /\ spc' = "once") =>
          /\ sdoc' = sdoc
          /\ DocIsFalsy(sdoc) => sret'[1] = sdoc
     /\ (spc = "once" /\ spc' = "twice") =>
          /\ sret'[1] = sret[1]
          /\ sret'[2] = sret[1]]_vars

C10_Witness ==
  /\ spc = "twice"
  /\ sdoc # None
  /\ {"_id", "id", "ref"} \subseteq DOMAIN sdoc[2]
  /\ IsObjectId(sdoc[2]["_id"])
  /\ IsObjectId(sdoc[2]["id"])
  /\ sret[2][2]["id"] = ObjectIdStr(sdoc[2]["_id"])

====
